---- MODULE Spec2Model ----
(***************************************************************************)
(* Model of ci/md-links-test.py: the registry builder (get_guides), the    *)
(* alias uniqueness checker (get_duplicate_aliases), the link extractor    *)
(* and classifier (check_internal_markdown_links) and the aggregation and  *)
(* exit of main.  Python strings are TLA+ strings; the string methods the  *)
(* program uses are operators computed character by character.             *)
(***************************************************************************)
EXTENDS Integers, Sequences, FiniteSets, TLC

VARIABLES
    files,                \* the walked content files, in os.walk order
    home,                 \* the lines of docs/_index.md (outside DOCS_DIR)
    guides,               \* get_guides: the list of Guide objects
    assets,               \* get_guides: the list of Asset objects
    issues,               \* main: the flat list of Issue objects
    issue_types,          \* the module-level list of IssueType objects
    test_failed,          \* main: test_failed
    exit_code,            \* the process exit code, -1 while running
    pc,                   \* the position of main
    gi,                   \* check_internal_markdown_links: index of guide
    li,                   \* index of the line being read in the open file
    mi,                   \* index of the regex match being classified
    insideSpecialElement, \* check_internal_markdown_links: the block flag
    link_unmodified,      \* the target of the last classified match
    mark,                 \* history: Len(issues) before the last match
    prev                  \* history: the outcome of an earlier run, or none

vars == <<files, home, guides, assets, issues, issue_types, test_failed,
          exit_code, pc, gi, li, mi, insideSpecialElement, link_unmodified,
          mark, prev>>

-----------------------------------------------------------------------------
(* Python string methods *)

\* s.startswith(p)
StartsWith(s, p) ==
    Len(s) >= Len(p) /\ SubSeq(s, 1, Len(p)) = p

\* s.endswith(p)
EndsWith(s, p) ==
    Len(s) >= Len(p) /\ SubSeq(s, Len(s) - Len(p) + 1, Len(s)) = p

\* sub in s
Contains(s, sub) ==
    \E i \in 1..(Len(s) - Len(sub) + 1) : SubSeq(s, i, i + Len(sub) - 1) = sub

\* s.find(sub) + 1: the position of the first occurrence, 0 when there is none
Find(s, sub) ==
    IF Contains(s, sub)
    THEN CHOOSE i \in 1..(Len(s) - Len(sub) + 1) :
            /\ SubSeq(s, i, i + Len(sub) - 1) = sub
            /\ \A j \in 1..(i - 1) : SubSeq(s, j, j + Len(sub) - 1) # sub
    ELSE 0

\* the position of the last occurrence of sub in s, 0 when there is none
FindLast(s, sub) ==
    IF Contains(s, sub)
    THEN CHOOSE i \in 1..(Len(s) - Len(sub) + 1) :
            /\ SubSeq(s, i, i + Len(sub) - 1) = sub
            /\ \A j \in (i + 1)..(Len(s) - Len(sub) + 1) :
                  SubSeq(s, j, j + Len(sub) - 1) # sub
    ELSE 0

\* s.replace(old, new): every non-overlapping occurrence, left to right
RECURSIVE Replace(_, _, _)
Replace(s, old, new) ==
    IF Len(s) < Len(old) THEN s
    ELSE IF SubSeq(s, 1, Len(old)) = old
         THEN new \o Replace(SubSeq(s, Len(old) + 1, Len(s)), old, new)
         ELSE SubSeq(s, 1, 1) \o Replace(SubSeq(s, 2, Len(s)), old, new)

\* s.split("#", 1)[0]
BeforeHash(s) ==
    IF Contains(s, "#") THEN SubSeq(s, 1, Find(s, "#") - 1) ELSE s

\* s.split("/")[-1]
LastSegment(s) ==
    SubSeq(s, FindLast(s, "/") + 1, Len(s))

\* s.split("/")[-2] of a path with at least one "/"
ParentSegment(s) ==
    LastSegment(SubSeq(s, 1, FindLast(s, "/") - 1))

-----------------------------------------------------------------------------
(* Objects *)

Guide(path, link, aliases) ==
    [path |-> path, link |-> link, aliases |-> aliases]

Asset(link) == [link |-> link]

Issue(link, type_id) == [link |-> link, type_id |-> type_id]

IssueType(id, severity, weight) ==
    [id |-> id, severity |-> severity, weight |-> weight, issues |-> <<>>]

\* the module-level issue_types list as the import leaves it
InitialIssueTypes ==
    << IssueType("not-found", "failure", 0),
       IssueType("duplicate-alias", "failure", 10),
       IssueType("docs-domain-name", "failure", 20),
       IssueType("incorrect-root", "failure", 30),
       IssueType("other", "failure", 40),
       IssueType("points-to-alias", "warning", 50) >>

\* the three characters of a code fence; a TLA+ string cannot hold the
\* backquote, so the apostrophe stands for it in every line of the model
FENCE == "'''"

elementsToIgnore == <<"{{< file", FENCE, "{{< command">>

-----------------------------------------------------------------------------
(* get_guides *)

SeededGuides ==
    << Guide("docs/_index.md", "/docs/", <<>>),
       Guide("", "/docs/marketplace/", <<>>),
       Guide("", "/docs/resources/", <<>>),
       Guide("", "/docs/topresults/?docType=community", <<>>) >>

\* the canonical link of a markdown file with front matter fm
CanonicalLink(file_path, fm) ==
    IF "slug" \in fm.keys /\ Contains(file_path, "docs/guides/")
    THEN "/docs/guides/" \o fm.slug \o "/"
    ELSE IF "slug" \in fm.keys /\ Contains(file_path, "docs/api/")
    THEN "/docs/api/" \o fm.slug \o "/"
    ELSE Replace(Replace("/" \o file_path, "/index.md", "/"), "/_index.md", "/")

\* the link of a file that is not markdown
AssetLink(file_path) ==
    IF Contains(file_path, "docs/guides/")
    THEN "/docs/guides/" \o ParentSegment(file_path) \o "/" \o LastSegment(file_path)
    ELSE "/" \o file_path

\* the guides one walked file appends: none or one
GuidesOfFile(f) ==
    IF ~EndsWith(f.path, ".md") THEN <<>>
    ELSE IF ~f.parses THEN <<>>
    ELSE IF "headless" \in f.fm.keys /\ f.fm.headless = TRUE THEN <<>>
    ELSE IF "title" \notin f.fm.keys THEN <<>>
    ELSE << Guide(f.path, CanonicalLink(f.path, f.fm),
                  IF "aliases" \in f.fm.keys THEN f.fm.aliases ELSE <<>>) >>

\* the assets one walked file appends: none or one
AssetsOfFile(f) ==
    IF EndsWith(f.path, ".md") THEN <<>> ELSE << Asset(AssetLink(f.path)) >>

RECURSIVE WalkGuides(_)
WalkGuides(fs) ==
    IF fs = <<>> THEN <<>> ELSE GuidesOfFile(Head(fs)) \o WalkGuides(Tail(fs))

RECURSIVE WalkAssets(_)
WalkAssets(fs) ==
    IF fs = <<>> THEN <<>> ELSE AssetsOfFile(Head(fs)) \o WalkAssets(Tail(fs))

get_guides(fs) ==
    [guides |-> SeededGuides \o WalkGuides(fs), assets |-> WalkAssets(fs)]

-----------------------------------------------------------------------------
(* get_duplicate_aliases *)

\* get_duplicate_aliases with aliases.discard(alias) after an issue: the
\* third occurrence of a string goes unreported
RECURSIVE DuplicateLoopForgetting(_, _, _)
DuplicateLoopForgetting(al, seen, out) ==
    IF al = <<>> THEN out
    ELSE IF Head(al) \in seen
         THEN DuplicateLoopForgetting(Tail(al), seen \ {Head(al)},
                            Append(out, Issue(Head(al), "duplicate-alias")))
         ELSE DuplicateLoopForgetting(Tail(al), seen \cup {Head(al)}, out)

\* get_duplicate_aliases with aliases = {alias} for aliases.add(alias): only
\* the string seen last is remembered
RECURSIVE DuplicateLoopLastOnly(_, _, _)
DuplicateLoopLastOnly(al, seen, out) ==
    IF al = <<>> THEN out
    ELSE IF Head(al) \in seen
         THEN DuplicateLoopLastOnly(Tail(al), seen,
                            Append(out, Issue(Head(al), "duplicate-alias")))
         ELSE DuplicateLoopLastOnly(Tail(al), {Head(al)}, out)

\* the loop over (guide, alias) pairs flattened: al is the remaining aliases
\* in iteration order, seen the aliases set, out the issues so far
RECURSIVE DuplicateLoop(_, _, _)
DuplicateLoop(al, seen, out) ==
    IF al = <<>> THEN out
    ELSE IF Head(al) \in seen
         THEN DuplicateLoop(Tail(al), seen,
                            Append(out, Issue(Head(al), "duplicate-alias")))
         ELSE DuplicateLoop(Tail(al), seen \cup {Head(al)}, out)

\* the aliases of all guides in iteration order
RECURSIVE AliasOccurrences(_)
AliasOccurrences(gs) ==
    IF gs = <<>> THEN <<>> ELSE Head(gs).aliases \o AliasOccurrences(Tail(gs))

get_duplicate_aliases(gs) ==
    DuplicateLoop(AliasOccurrences(gs), {}, <<>>)

-----------------------------------------------------------------------------
(* check_internal_markdown_links *)

\* line.strip().startswith(tuple(elementsToIgnore))
StartsWithIgnored(stripped) ==
    \E k \in 1..Len(elementsToIgnore) : StartsWith(stripped, elementsToIgnore[k])

\* the value of insideSpecialElement after a line, lines 239-246
FlagAfterLine(flag, stripped) ==
    IF StartsWithIgnored(stripped) THEN TRUE
    ELSE IF StartsWithIgnored(stripped) THEN FALSE
    ELSE flag

\* whether the matches of a line are iterated, lines 239-249
LineIsScanned(flag, stripped) ==
    ~StartsWithIgnored(stripped) /\ ~flag

\* line 258 without the ftp:// test
IsExternalNoFtp(link) ==
    StartsWith(link, "http://") \/ StartsWith(link, "https://")

IsExternal(link) ==
    StartsWith(link, "http://") \/ StartsWith(link, "https://")
        \/ StartsWith(link, "ftp://")

\* line 254 with the host name www.linode.com for the domain
HasDocsDomainWithHost(link) ==
    Contains(link, "www.linode.com/docs/")

\* line 254
HasDocsDomain(link) ==
    Contains(link, "linode.com/docs/")

IsAssetLink(link, as) ==
    \E k \in 1..Len(as) : as[k].link = link

IsCanonicalLink(link, gs) ==
    \E k \in 1..Len(gs) : gs[k].link = link

IsAlias(link, gs) ==
    \E k \in 1..Len(gs) : \E a \in 1..Len(gs[k].aliases) :
        gs[k].aliases[a] = Replace(link, "/docs/", "/")

\* lines 275-283: the formatting issues of a link under /docs/
FormattingIssues(link, unmodified) ==
    LET link2 == IF Contains(link, "//") THEN Replace(link, "//", "/") ELSE link
    IN  (IF Contains(link, "//") THEN <<Issue(unmodified, "formatting")>> ELSE <<>>)
        \o (IF ~EndsWith(link2, "/") THEN <<Issue(unmodified, "formatting")>> ELSE <<>>)

\* lines 275-283 without line 283, link = link + '/'
NormalizedWithoutSlash(link) ==
    IF Contains(link, "//") THEN Replace(link, "//", "/") ELSE link

\* lines 275-283: the link as rewritten by the formatting checks
Normalized(link) ==
    LET link2 == IF Contains(link, "//") THEN Replace(link, "//", "/") ELSE link
    IN  IF ~EndsWith(link2, "/") THEN link2 \o "/" ELSE link2

\* lines 284-290 with the not-found issue outside the else
LookupIssuesWithoutElse(link, unmodified, gs) ==
    IF ~IsCanonicalLink(link, gs)
    THEN (IF IsAlias(link, gs)
          THEN <<Issue(unmodified, "points-to-alias")>> ELSE <<>>)
         \o <<Issue(unmodified, "not-found")>>
    ELSE <<>>

\* lines 284-290: the lookup of the rewritten link
LookupIssues(link, unmodified, gs) ==
    IF ~IsCanonicalLink(link, gs)
    THEN IF IsAlias(link, gs)
         THEN <<Issue(unmodified, "points-to-alias")>>
         ELSE <<Issue(unmodified, "not-found")>>
    ELSE <<>>

\* lines 251-290: the issues appended for one regex match with group(3) = target
ClassifyLink(target, gs, as) ==
    IF HasDocsDomain(target)
    THEN <<Issue(target, "docs-domain-name")>>
    ELSE IF IsExternal(target) THEN <<>>
    ELSE IF IsAssetLink(target, as) THEN <<>>
    ELSE IF StartsWith(target, "#") THEN <<>>
    ELSE LET link == BeforeHash(target)
         IN  IF ~Contains(link, "/") /\ Contains(link, ".") THEN <<>>
             ELSE IF ~StartsWith(link, "/docs/")
                  THEN <<Issue(target, "incorrect-root")>>
                  ELSE FormattingIssues(link, target)
                       \o LookupIssues(Normalized(link), target, gs)

\* open(guide.path): the lines of the file a guide was built from
LinesOf(path) ==
    IF path = "docs/_index.md" THEN home
    ELSE LET k == CHOOSE k \in 1..Len(files) : files[k].path = path
         IN  files[k].lines

-----------------------------------------------------------------------------
(* main, lines 305-365 *)

\* filter(lambda i: i.type_id == id, issues) in order
RECURSIVE IssuesOfType(_, _)
IssuesOfType(is, id) ==
    IF is = <<>> THEN <<>>
    ELSE (IF Head(is).type_id = id THEN <<Head(is)>> ELSE <<>>)
         \o IssuesOfType(Tail(is), id)

\* lines 307-310
GroupIssues(types, is) ==
    [k \in 1..Len(types) |->
        [types[k] EXCEPT !.issues = @ \o IssuesOfType(is, types[k].id)]]

\* insertion of t into a list sorted by weight, after the equal weights
RECURSIVE InsertByWeight(_, _)
InsertByWeight(sorted, t) ==
    IF sorted = <<>> THEN <<t>>
    ELSE IF t.weight < Head(sorted).weight THEN <<t>> \o sorted
    ELSE <<Head(sorted)>> \o InsertByWeight(Tail(sorted), t)

\* line 313: issue_types.sort(key=lambda x: x.weight), a stable sort
RECURSIVE SortByWeight(_)
SortByWeight(types) ==
    IF types = <<>> THEN <<>>
    ELSE InsertByWeight(SortByWeight(SubSeq(types, 1, Len(types) - 1)),
                        types[Len(types)])

\* lines 316-319 without the test of the severity
AnyFailureOrWarning(types) ==
    \E k \in 1..Len(types) : ~(Len(types[k].issues) = 0)

\* lines 316-319
AnyFailure(types) ==
    \E k \in 1..Len(types) :
        types[k].severity = "failure" /\ ~(Len(types[k].issues) = 0)

\* lines 340-365: sys.exit(1) on failure, a normal end otherwise
ExitCode(failed) == IF failed THEN 1 ELSE 0

-----------------------------------------------------------------------------
(* The content trees the runs are checked on *)

MaxFiles == 2       \* walked files of a registry or alias tree
MaxAliases == 2     \* aliases a page declares in an alias tree
MaxMatches == 2     \* links on the one line of the scanned page of a link tree
MaxLines == 3       \* lines of docs/_index.md in a block tree

\* the sequences over S of length at most n
SeqsUpTo(S, n) == UNION {[1..k -> S] : k \in 0..n}

\* a file is what os.walk and frontmatter.load give for it: its relative path,
\* whether its front matter parses, the front matter, and its lines; a line is
\* its stripped text with the group(3) of every match of link_pattern in it
FrontMatter(keys, headless, slug, aliases) ==
    [keys |-> keys, headless |-> headless, slug |-> slug, aliases |-> aliases]

File(path, parses, fm, lines) ==
    [path |-> path, parses |-> parses, fm |-> fm, lines |-> lines]

Plain == FrontMatter({"title"}, FALSE, "", <<>>)

RECURSIVE LinkText(_)
LinkText(targets) ==
    IF targets = <<>> THEN "see"
    ELSE LinkText(SubSeq(targets, 1, Len(targets) - 1))
         \o " [t](" \o targets[Len(targets)] \o ")"

LinkLine(targets) == [stripped |-> LinkText(targets), matches |-> targets]

TextLine(text) == [stripped |-> text, matches |-> <<>>]

DistinctPaths(fs) ==
    \A i, j \in 1..Len(fs) : fs[i].path = fs[j].path => i = j

\* registry trees: files of every kind get_guides tells apart
RegistryFrontMatters ==
    { Plain,
      FrontMatter({"title", "slug"}, FALSE, "s", <<>>),
      FrontMatter({"title", "slug", "headless"}, FALSE, "x/y", <<>>),
      FrontMatter({"title", "headless"}, TRUE, "", <<>>),
      FrontMatter({"slug"}, FALSE, "s", <<>>) }

RegistryFiles ==
    { File(p, TRUE, fm, <<>>) :
        p \in {"docs/guides/a/index.md", "docs/api/b/_index.md",
               "docs/products/c.md", "docs/guides/d/e.md"},
        fm \in RegistryFrontMatters }
    \cup { File("docs/bundles/f/index.md", FALSE, Plain, <<>>),
           File("docs/guides/a/i.png", TRUE, Plain, <<>>),
           File("docs/assets/j.png", TRUE, Plain, <<>>) }

RegistryTrees ==
    { [files |-> fs, home |-> <<>>] :
        fs \in {s \in SeqsUpTo(RegistryFiles, MaxFiles) : DistinctPaths(s)} }

\* alias trees: pages that declare aliases from a small pool
AliasPool == {"/guides/old/", "/guides/older/"}

RECURSIVE Repeat(_, _)
Repeat(c, n) == IF n = 0 THEN "" ELSE c \o Repeat(c, n - 1)

AliasPage(k, aliases) ==
    File("docs/guides/" \o Repeat("p", k) \o "/index.md", TRUE,
         FrontMatter({"title", "aliases"}, FALSE, "", aliases), <<>>)

AliasTrees ==
    { [files |-> [k \in 1..Len(al) |-> AliasPage(k, al[k])], home |-> <<>>] :
        al \in SeqsUpTo(SeqsUpTo(AliasPool, MaxAliases), MaxFiles) }

\* link trees: a page with aliases, two assets, and a page whose one line
\* holds links of every kind the classifier tells apart
Links ==
    { "/docs/guides/foo/", "/docs/guides/foo", "/docs/guides/foo//",
      "/docs//guides/foo", "/docs/guides/foo/#install", "/docs/marketplace/",
      "/docs/guides/old/", "/docs/guides/old", "/docs/guides/bare",
      "/docs/guides/bare/", "/docs/guides/missing/", "/docs/guides/missing",
      "/docs/guides//missing", "/docs/guides/missing/#top",
      "/docs/topresults/?docType=community",
      "#top", "img.png", "README", "docs/guides/foo/", "/guides/foo/",
      "../foo/", "/docs/guides/foo/img.png",
      "https://example.com/x", "http://example.com//y", "ftp://example.com/z",
      "https://www.linode.com/docs/guides/foo/",
      "https://www.linode.com/docs/guides/foo",
      "http://linode.com/docs//guides/missing", "linode.com/docs/",
      "/docs/assets/linode.com/docs/k.png" }

LinkContext ==
    << File("docs/guides/foo/index.md", TRUE,
            FrontMatter({"title", "aliases"}, FALSE, "",
                        <<"/guides/old/", "guides/bare">>), <<>>),
       File("docs/guides/foo/img.png", TRUE, Plain, <<>>),
       File("docs/assets/linode.com/docs/k.png", TRUE, Plain, <<>>) >>

LinkTrees ==
    { [files |-> Append(LinkContext,
                        File("docs/products/src/index.md", TRUE, Plain,
                             <<LinkLine(ms)>>)),
       home |-> <<>>] :
        ms \in SeqsUpTo(Links, MaxMatches) }

\* block trees: docs/_index.md with lines that open blocks, close them,
\* carry a link to a page that does not exist, or carry plain text
BlockLines ==
    { TextLine("{{< file \"x.sh\" bash >}}"), TextLine("{{< /file >}}"),
      TextLine(FENCE \o "python"), TextLine("{{< command >}}"),
      LinkLine(<<"/docs/guides/missing/">>), TextLine("text") }

BlockTrees ==
    { [files |-> <<>>, home |-> ls] : ls \in SeqsUpTo(BlockLines, MaxLines) }

Trees == RegistryTrees \cup AliasTrees \cup LinkTrees \cup BlockTrees

NoRun == [counts |-> <<>>, failed |-> FALSE, issues |-> <<>>, runs |-> 0]

\* the state when main is entered on the tree t
Start(t) ==
    /\ files = t.files
    /\ home = t.home
    /\ guides = <<>>
    /\ assets = <<>>
    /\ issues = <<>>
    /\ issue_types = InitialIssueTypes
    /\ test_failed = FALSE
    /\ exit_code = -1
    /\ pc = "get_guides"
    /\ gi = 0
    /\ li = 0
    /\ mi = 0
    /\ insideSpecialElement = FALSE
    /\ link_unmodified = ""
    /\ mark = 0
    /\ prev = NoRun

Init == \E t \in Trees : Start(t)

-----------------------------------------------------------------------------
(* The run of main as a state machine *)

\* main, line 300
GetGuides ==
    /\ pc = "get_guides"
    /\ guides' = get_guides(files).guides
    /\ assets' = get_guides(files).assets
    /\ pc' = "get_duplicate_aliases"
    /\ UNCHANGED <<files, home, issues, issue_types, test_failed, exit_code,
                   gi, li, mi, insideSpecialElement, link_unmodified, mark, prev>>

\* main, line 302
GetDuplicateAliases ==
    /\ pc = "get_duplicate_aliases"
    /\ issues' = issues \o get_duplicate_aliases(guides)
    /\ gi' = 1
    /\ pc' = "guide"
    /\ UNCHANGED <<files, home, guides, assets, issue_types, test_failed,
                   exit_code, li, mi, insideSpecialElement, link_unmodified,
                   mark, prev>>

\* check_internal_markdown_links, lines 224-233: the next guide of the loop,
\* and the return when there is none
OpenGuide ==
    /\ pc = "guide"
    /\ IF gi > Len(guides)
       THEN /\ pc' = "group"
            /\ UNCHANGED <<gi, li, insideSpecialElement>>
       ELSE IF guides[gi].path = ""
       THEN /\ gi' = gi + 1
            /\ UNCHANGED <<pc, li, insideSpecialElement>>
       ELSE /\ insideSpecialElement' = FALSE
            /\ li' = 1
            /\ pc' = "line"
            /\ UNCHANGED gi
    /\ UNCHANGED <<files, home, guides, assets, issues, issue_types,
                   test_failed, exit_code, mi, link_unmodified, mark, prev>>

\* lines 236-246: one line of the open file, or its end
ReadLine ==
    /\ pc = "line"
    /\ LET lines == LinesOf(guides[gi].path)
       IN  IF li > Len(lines)
           THEN /\ gi' = gi + 1
                /\ pc' = "guide"
                /\ UNCHANGED <<li, mi, insideSpecialElement>>
           ELSE /\ insideSpecialElement' =
                       FlagAfterLine(insideSpecialElement, lines[li].stripped)
                /\ IF LineIsScanned(insideSpecialElement, lines[li].stripped)
                   THEN /\ mi' = 1
                        /\ pc' = "match"
                        /\ UNCHANGED li
                   ELSE /\ li' = li + 1
                        /\ UNCHANGED <<pc, mi>>
                /\ UNCHANGED gi
    /\ UNCHANGED <<files, home, guides, assets, issues, issue_types,
                   test_failed, exit_code, link_unmodified, mark, prev>>

\* lines 249-290: one regex match of the line, or the end of the line
ClassifyMatch ==
    /\ pc = "match"
    /\ LET matches == LinesOf(guides[gi].path)[li].matches
       IN  IF mi > Len(matches)
           THEN /\ li' = li + 1
                /\ pc' = "line"
                /\ UNCHANGED <<mi, issues, link_unmodified, mark>>
           ELSE /\ link_unmodified' = matches[mi]
                /\ mark' = Len(issues)
                /\ issues' = issues \o ClassifyLink(matches[mi], guides, assets)
                /\ mi' = mi + 1
                /\ UNCHANGED <<li, pc>>
    /\ UNCHANGED <<files, home, guides, assets, issue_types, test_failed,
                   exit_code, gi, insideSpecialElement, prev>>

\* main, lines 307-310
Group ==
    /\ pc = "group"
    /\ issue_types' = GroupIssues(issue_types, issues)
    /\ pc' = "sort"
    /\ UNCHANGED <<files, home, guides, assets, issues, test_failed, exit_code,
                   gi, li, mi, insideSpecialElement, link_unmodified, mark, prev>>

\* main, line 313
Sort ==
    /\ pc = "sort"
    /\ issue_types' = SortByWeight(issue_types)
    /\ pc' = "check"
    /\ UNCHANGED <<files, home, guides, assets, issues, test_failed, exit_code,
                   gi, li, mi, insideSpecialElement, link_unmodified, mark, prev>>

\* main, lines 316-319
CheckFailures ==
    /\ pc = "check"
    /\ test_failed' = AnyFailure(issue_types)
    /\ pc' = "report"
    /\ UNCHANGED <<files, home, guides, assets, issues, issue_types, exit_code,
                   gi, li, mi, insideSpecialElement, link_unmodified, mark, prev>>

\* main, lines 322-365: the report and the end of the process
Exit ==
    /\ pc = "report"
    /\ exit_code' = ExitCode(test_failed)
    /\ pc' = "done"
    /\ UNCHANGED <<files, home, guides, assets, issues, issue_types,
                   test_failed, gi, li, mi, insideSpecialElement,
                   link_unmodified, mark, prev>>

Next ==
    \/ GetGuides
    \/ GetDuplicateAliases
    \/ OpenGuide
    \/ ReadLine
    \/ ClassifyMatch
    \/ Group
    \/ Sort
    \/ CheckFailures
    \/ Exit

Spec == Init /\ [][Next]_vars

-----------------------------------------------------------------------------
(* A second run of the two checkers on the same tree with the registry in   *)
(* another order, to compare the outcome with that of the first run         *)

\* the orderings of a list
Orderings(s) ==
    { [k \in 1..Len(s) |-> s[f[k]]] :
        f \in {g \in [1..Len(s) -> 1..Len(s)] :
                 \A i, j \in 1..Len(s) : g[i] = g[j] => i = j} }

IssueIds ==
    {InitialIssueTypes[k].id : k \in 1..Len(InitialIssueTypes)}

\* the number of issues of each category id, and of the id "formatting"
CountsByType(is) ==
    [id \in IssueIds \cup {"formatting"} |->
        Cardinality({n \in 1..Len(is) : is[n].type_id = id})]

Restart ==
    /\ pc = "done"
    /\ prev.runs = 0
    /\ prev' = [counts |-> CountsByType(issues), failed |-> (exit_code = 1),
                issues |-> issues, runs |-> 1]
    /\ guides' \in Orderings(guides)
    /\ assets' \in Orderings(assets)
    /\ issues' = <<>>
    /\ issue_types' = InitialIssueTypes
    /\ test_failed' = FALSE
    /\ exit_code' = -1
    /\ pc' = "get_duplicate_aliases"
    /\ gi' = 0
    /\ li' = 0
    /\ mi' = 0
    /\ insideSpecialElement' = FALSE
    /\ link_unmodified' = ""
    /\ mark' = 0
    /\ UNCHANGED <<files, home>>

\* order trees: pages that link to each other, share aliases and open blocks
OrderFiles ==
    << File("docs/guides/p/index.md", TRUE,
            FrontMatter({"title", "aliases"}, FALSE, "", <<"/guides/old/">>),
            <<LinkLine(<<"/docs/guides/q/", "/docs/guides/old">>)>>),
       File("docs/guides/q/index.md", TRUE,
            FrontMatter({"title", "aliases"}, FALSE, "",
                        <<"/guides/old/", "/guides/older/">>),
            <<LinkLine(<<"/docs/guides/missing/">>), TextLine(FENCE),
              LinkLine(<<"/docs/guides/p/">>)>>),
       File("docs/api/r/index.md", TRUE,
            FrontMatter({"title", "aliases", "slug"}, FALSE, "p",
                        <<"/guides/older/", "/guides/older/">>),
            <<LinkLine(<<"/docs/api/p", "docs/guides/p/",
                         "https://linode.com/docs/guides/p/">>)>>),
       File("docs/assets/j.png", TRUE, Plain, <<>>) >>

\* the sublists of s of at most n elements, in the order of s
RECURSIVE Sublists(_, _)
Sublists(s, n) ==
    IF s = <<>> \/ n = 0 THEN {<<>>}
    ELSE Sublists(Tail(s), n)
         \cup {<<Head(s)>> \o t : t \in Sublists(Tail(s), n - 1)}

OrderTrees ==
    { [files |-> fs, home |-> <<LinkLine(<<"/docs/guides/p/", "/docs/guides/older/">>)>>] :
        fs \in Sublists(OrderFiles, MaxFiles) }

InitOrder == \E t \in OrderTrees : Start(t)

NextOrder == Next \/ Restart

SpecOrder == InitOrder /\ [][NextOrder]_vars

-----------------------------------------------------------------------------
(* Properties *)

\* a regex match has just been classified: link_unmodified is its target
AfterMatch == pc = "match" /\ mi > 1

\* the issues appended for the last classified match
LastIssues == SubSeq(issues, mark + 1, Len(issues))

Grouped == pc \in {"sort", "check", "report", "done"}

FailureIds ==
    {InitialIssueTypes[k].id :
        k \in {j \in 1..Len(InitialIssueTypes) :
                 InitialIssueTypes[j].severity = "failure"}}

\* C1: main ends with exit code 1 if and only if a category of severity
\* failure has a non-empty issue list after the grouping, that is, if and
\* only if some issue carries the id of a failure category; otherwise it ends
\* with exit code 0, whatever the number of points-to-alias issues.
C1_ExitIffFailure ==
    pc = "done" =>
        /\ exit_code \in {0, 1}
        /\ exit_code = 1 <=>
              \E k \in 1..Len(issue_types) :
                  issue_types[k].severity = "failure"
                      /\ Len(issue_types[k].issues) > 0
        /\ exit_code = 1 <=>
              \E n \in 1..Len(issues) : issues[n].type_id \in FailureIds

\* a run that ends normally although it recorded a points-to-alias issue
C1_Witness ==
    /\ pc = "done"
    /\ exit_code = 0
    /\ \E n \in 1..Len(issues) : issues[n].type_id = "points-to-alias"

\* the target is /docs/<p> with no trailing slash, no fragment, no "//" and
\* no docs domain, and is no asset and, with the slash added, no canonical link
PlainDocsPath(l) ==
    /\ StartsWith(l, "/docs/")
    /\ ~EndsWith(l, "/")
    /\ ~Contains(l, "#")
    /\ ~Contains(l, "//")
    /\ ~Contains(l, "linode.com/docs/")
    /\ \A k \in 1..Len(assets) : assets[k].link # l
    /\ \A k \in 1..Len(guides) : guides[k].link # l \o "/"

SomePageDeclares(alias) ==
    \E k \in 1..Len(guides) : \E a \in 1..Len(guides[k].aliases) :
        guides[k].aliases[a] = alias

\* C2 as stated: a target /docs/<p> without trailing slash that matches no
\* page and no asset, where a page declares the alias <p>, yields a
\* formatting issue and then a points-to-alias issue, and no not-found issue.
C2_AliasWithoutSlashes ==
    ( /\ AfterMatch
      /\ PlainDocsPath(link_unmodified)
      /\ SomePageDeclares(SubSeq(link_unmodified, 7, Len(link_unmodified))) )
    => LastIssues = << Issue(link_unmodified, "formatting"),
                       Issue(link_unmodified, "points-to-alias") >>

\* C2 amended: the same with the alias /<p>/, the target with the slash added
\* and every /docs/ replaced by /.
C2_AliasWithSlashes ==
    ( /\ AfterMatch
      /\ PlainDocsPath(link_unmodified)
      /\ SomePageDeclares(Replace(link_unmodified \o "/", "/docs/", "/")) )
    => LastIssues = << Issue(link_unmodified, "formatting"),
                       Issue(link_unmodified, "points-to-alias") >>

C2_Witness ==
    /\ AfterMatch
    /\ link_unmodified = "/docs/guides/old"
    /\ SomePageDeclares("/guides/old/")
    /\ PlainDocsPath(link_unmodified)
    /\ Len(LastIssues) = 2
    /\ LastIssues[2].type_id = "points-to-alias"

\* C3 as stated: all issues recorded for one link occurrence carry the same
\* category id.
C3_OneCategoryPerLink ==
    AfterMatch =>
        \A m, n \in 1..Len(LastIssues) :
            LastIssues[m].type_id = LastIssues[n].type_id

\* C3 amended: the issues recorded for one link occurrence are at most two
\* issues with the id formatting followed by at most one issue with another
\* id, so a link gets at most one category besides formatting.
C3_OneCategoryBesidesFormatting ==
    AfterMatch =>
        /\ Len(LastIssues) <= 3
        /\ \A n \in 1..Len(LastIssues) :
              /\ LastIssues[n].link = link_unmodified
              /\ LastIssues[n].type_id # "formatting" => n = Len(LastIssues)
        /\ Cardinality({n \in 1..Len(LastIssues) :
                           LastIssues[n].type_id = "formatting"}) <= 2

\* a link that got two formatting issues and then a not-found issue
C3_Witness ==
    /\ AfterMatch
    /\ Len(LastIssues) = 3
    /\ LastIssues[1].type_id = "formatting"
    /\ LastIssues[2].type_id = "formatting"
    /\ LastIssues[3].type_id = "not-found"

DuplicateAliasIssues ==
    SelectSeq(issues, LAMBDA i : i.type_id = "duplicate-alias")

\* the positions in occ of the entries that occurred before
Repeats(occ) ==
    {i \in 1..Len(occ) : \E j \in 1..(i - 1) : occ[j] = occ[i]}

\* the k-th smallest element of a set of numbers
Nth(S, k) == CHOOSE i \in S : Cardinality({j \in S : j <= i}) = k

\* C4: once get_duplicate_aliases has returned, the duplicate-alias issues
\* are, in order, one issue per alias occurrence that is not the first
\* occurrence of its string in iteration order, carrying that string; their
\* number is the number of occurrences minus the number of distinct strings.
C4_DuplicateAliases ==
    pc \notin {"get_guides", "get_duplicate_aliases"} =>
        LET occ == AliasOccurrences(guides)
            dup == DuplicateAliasIssues
        IN  /\ Len(dup) = Len(occ) - Cardinality({occ[i] : i \in 1..Len(occ)})
            /\ Len(dup) = Cardinality(Repeats(occ))
            /\ \A k \in 1..Len(dup) : dup[k].link = occ[Nth(Repeats(occ), k)]

\* two pages that each declare the same one alias: exactly one issue
C4_Witness ==
    /\ pc = "guide"
    /\ Len(guides) = 6
    /\ guides[5].aliases = <<"/guides/old/">>
    /\ guides[6].aliases = <<"/guides/old/">>
    /\ issues = <<Issue("/guides/old/", "duplicate-alias")>>

\* C5: a link whose target contains linode.com/docs/ yields exactly one
\* issue, of category docs-domain-name, carrying the unmodified target.
C5_DocsDomainName ==
    (AfterMatch /\ Contains(link_unmodified, "linode.com/docs/")) =>
        LastIssues = <<Issue(link_unmodified, "docs-domain-name")>>

\* such a link that also has a protocol prefix, a "//", no trailing slash
\* and no canonical link
C5_Witness ==
    /\ AfterMatch
    /\ link_unmodified = "http://linode.com/docs//guides/missing"
    /\ LastIssues = <<Issue(link_unmodified, "docs-domain-name")>>

\* C6 as stated: a link whose target starts with http://, https:// or
\* ftp:// yields no issue.
C6_ExternalNoIssue ==
    ( /\ AfterMatch
      /\ \/ StartsWith(link_unmodified, "http://")
         \/ StartsWith(link_unmodified, "https://")
         \/ StartsWith(link_unmodified, "ftp://") )
    => LastIssues = <<>>

\* C6 amended: such a link yields no issue unless its target contains
\* linode.com/docs/.
C6_ExternalOffSiteNoIssue ==
    ( /\ AfterMatch
      /\ \/ StartsWith(link_unmodified, "http://")
         \/ StartsWith(link_unmodified, "https://")
         \/ StartsWith(link_unmodified, "ftp://")
      /\ ~Contains(link_unmodified, "linode.com/docs/") )
    => LastIssues = <<>>

C6_Witness ==
    /\ AfterMatch
    /\ link_unmodified = "ftp://example.com/z"
    /\ LastIssues = <<>>

\* C7: every page in the registry get_guides returned has a canonical link
\* that ends in "/".
C7_CanonicalLinkEndsInSlash ==
    pc # "get_guides" =>
        \A k \in 1..Len(guides) : EndsWith(guides[k].link, "/")

\* the number of lines among the first n that start with a marker
RECURSIVE MarkerLines(_, _)
MarkerLines(lines, n) ==
    IF n = 0 THEN 0
    ELSE MarkerLines(lines, n - 1)
         + (IF \E k \in 1..Len(elementsToIgnore) :
                   StartsWith(lines[n].stripped, elementsToIgnore[k])
            THEN 1 ELSE 0)

\* C8: while the lines of a file are scanned the flag is set exactly when an
\* odd number of marker lines came before the line to read, and a line that
\* is no marker has its links classified exactly when that number is even.
C8_FlagToggles ==
    LET lines == LinesOf(guides[gi].path)
    IN  /\ pc = "line" =>
              insideSpecialElement = (MarkerLines(lines, li - 1) % 2 = 1)
        /\ pc = "match" => MarkerLines(lines, li - 1) % 2 = 0

\* C9: a second run of the two checkers with the pages and the assets of the
\* registry in another order ends with the same number of issues of each
\* category id as the first run, and fails if and only if the first run did.
C9_OrderIndependent ==
    (pc = "done" /\ prev.runs = 1) =>
        /\ CountsByType(issues) = prev.counts
        /\ (exit_code = 1) = prev.failed

\* a second run that scanned the pages in another order and recorded the
\* issues of the first run in another order
C9_Witness ==
    /\ pc = "done"
    /\ prev.runs = 1
    /\ guides[1].path # "docs/_index.md"
    /\ Len(issues) > 2
    /\ issues # prev.issues
    /\ CountsByType(issues) = prev.counts

RECURSIVE GroupedCount(_)
GroupedCount(types) ==
    IF types = <<>> THEN 0
    ELSE Len(Head(types).issues) + GroupedCount(Tail(types))

\* C10: every issue carries the id of one of the defined categories, and
\* after the grouping the per-category counts sum to the number of issues.
C10_IssueIdsDefined ==
    /\ \A n \in 1..Len(issues) : issues[n].type_id \in IssueIds
    /\ Grouped => GroupedCount(issue_types) = Len(issues)

====
